---- MODULE Spec2Model ----
(***************************************************************************)
(* Recipe organizer: the Dashboard page (recipe collection, filters, delete *)
(* confirmation, save/delete handlers), the RecipeForm draft editor and the *)
(* remote `recipes` table it talks to through asynchronous requests.        *)
(*                                                                          *)
(* Strings are sequences of one-character tokens so that toLowerCase,       *)
(* includes and trim are computed, not assumed.  The optional numeric       *)
(* fields prep_time, cook_time and servings are copied through unchanged by *)
(* every handler modelled here and are left out of the records; the form's  *)
(* difficulty and cuisine selects, which write one field of the draft each  *)
(* as the title input does, are not operated.                               *)
(***************************************************************************)
EXTENDS Integers, Sequences, FiniteSets, TLC

\* ------------------------------------------------------------------ bounds
\* Requests (fetches and mutations) one session issues, the first fetch included.
MaxRequests == 3
\* The same, for the sessions that issue two mutations and their reloads.
RaceRequests == 5
\* Ingredient rows the editor may show at once.
MaxSlots == 2

\* ------------------------------------------------------------- identities
\* The authenticated user of the session, and another tenant of the table.
User == "u1"
OtherUser == "u2"

\* ------------------------------------------------------------------ strings
Whitespace == {" "}

Lower(c) == IF c = "A" THEN "a" ELSE IF c = "B" THEN "b" ELSE c

toLowerCase(s) == [i \in 1..Len(s) |-> Lower(s[i])]

RECURSIVE includes(_, _)
includes(s, t) ==
    IF Len(t) > Len(s) THEN FALSE
    ELSE IF SubSeq(s, 1, Len(t)) = t THEN TRUE
    ELSE includes(Tail(s), t)

RECURSIVE trimStart(_)
trimStart(s) ==
    IF s # <<>> /\ Head(s) \in Whitespace THEN trimStart(Tail(s)) ELSE s

RECURSIVE trimEnd(_)
trimEnd(s) ==
    IF s # <<>> /\ s[Len(s)] \in Whitespace
    THEN trimEnd(SubSeq(s, 1, Len(s) - 1)) ELSE s

trim(s) == trimEnd(trimStart(s))

\* ------------------------------------------------------------------- state
VARIABLES
    recipes,          \* Dashboard: the local collection (sequence of rows)
    loading,          \* Dashboard: loading flag
    showForm,         \* Dashboard: the form replaces the dashboard
    editingRecipe,    \* Dashboard: <<>> (null) or <<row>>
    searchTerm,       \* Dashboard: search text
    cuisineFilter,    \* Dashboard: "all" or a cuisine
    difficultyFilter, \* Dashboard: "all" or a difficulty
    deleteDialogOpen, \* Dashboard: confirmation dialog shown
    recipeToDelete,   \* Dashboard: 0 (null) or the pending id
    formData,         \* RecipeForm: the draft of the mounted form
    toast,            \* last notification handed to toast()
    remote,           \* the remote table: a set of rows
    nextId,           \* remote: next id / created_at the table assigns
    reqs,             \* requests of the session, in issue order
    quota             \* how many requests the session issues before it ends

vars == <<recipes, loading, showForm, editingRecipe, searchTerm, cuisineFilter,
          difficultyFilter, deleteDialogOpen, recipeToDelete, formData, toast,
          remote, nextId, reqs, quota>>

dashVars == <<recipes, loading, showForm, editingRecipe, deleteDialogOpen,
              recipeToDelete, formData, toast, remote, nextId, reqs, quota>>

filterVars == <<searchTerm, cuisineFilter, difficultyFilter>>

\* Left alone by every step: the filters' frame is stated per action.
sessionFrame == UNCHANGED quota

\* The draft a freshly mounted form starts from.
DefaultFormData ==
    [title |-> <<>>, ingredients |-> << <<>> >>, instructions |-> <<>>,
     difficulty |-> "medium", cuisine |-> "other"]

NoToast == [title |-> "", description |-> "", variant |-> ""]

\* A row of the remote table.
Row(id, owner, title, ingredients, instructions, difficulty, cuisine) ==
    [id |-> id, user_id |-> owner, created_at |-> id, title |-> title,
     ingredients |-> ingredients, instructions |-> instructions,
     difficulty |-> difficulty, cuisine |-> cuisine]

\* A request of the session; status is "sent", "ok", "err" (answered, not yet
\* handled), "done_ok" or "done_err" (its continuation has run).
Request(kind, id, data, editing) ==
    [kind |-> kind, status |-> "sent", filters |-> IF id = 0 THEN {} ELSE {"id"},
     id |-> id, data |-> data, editing |-> editing, result |-> <<>>, err |-> ""]

\* ------------------------------------------------------------ remote table
\* Rows the table may hold when the session starts.
R1 == Row(1, User, <<"A", "b">>, << <<"a">> >>, <<"i">>, "easy", "mexican")
R2 == Row(2, OtherUser, <<"b">>, << <<"B", "a">>, <<"b">> >>, <<"i">>, "medium", "asian")
R3 == Row(3, User, <<"b", "A">>, <<>>, <<"i">>, "easy", "asian")
Pool == {R1, R2, R3}
\* Ids are assigned past every id of the pool.
FirstFreeId == Cardinality(Pool) + 1

\* .order('created_at', { ascending: false })
RECURSIVE orderDesc(_)
orderDesc(S) ==
    IF S = {} THEN <<>>
    ELSE LET m == CHOOSE r \in S : \A q \in S : q.created_at <= r.created_at
         IN  <<m>> \o orderDesc(S \ {m})

\* The rows a request addresses: exactly the .eq() filters it carries.
Addressed(m, r) ==
    /\ ("id" \in m.filters => r.id = m.id)
    /\ ("user_id" \in m.filters => r.user_id = User)

\* The table after a mutation request is applied as sent.
Applied(m) ==
    CASE m.kind = "insert" ->
           LET d == m.data[1]
           IN  remote \cup {[id |-> nextId, user_id |-> d.user_id,
                             created_at |-> nextId, title |-> d.title,
                             ingredients |-> d.ingredients,
                             instructions |-> d.instructions,
                             difficulty |-> d.difficulty, cuisine |-> d.cuisine]}
      [] m.kind = "update" ->
           LET d == m.data[1]
           IN  {IF Addressed(m, r)
                THEN [r EXCEPT !.user_id = d.user_id, !.title = d.title,
                               !.ingredients = d.ingredients,
                               !.instructions = d.instructions,
                               !.difficulty = d.difficulty, !.cuisine = d.cuisine]
                ELSE r : r \in remote}
      [] m.kind = "delete" -> {r \in remote : ~Addressed(m, r)}
      [] OTHER -> remote

\* The collaborator answers request i with a payload.
ServerOk(i) ==
    /\ i \in DOMAIN reqs
    /\ reqs[i].status = "sent"
    /\ remote' = Applied(reqs[i])
    /\ nextId' = IF reqs[i].kind = "insert" THEN nextId + 1 ELSE nextId
    /\ reqs' = [reqs EXCEPT ![i].status = "ok",
                  ![i].result = IF reqs[i].kind = "select"
                                THEN orderDesc({r \in remote : Addressed(reqs[i], r)})
                                ELSE <<>>]
    /\ UNCHANGED <<recipes, loading, showForm, editingRecipe, deleteDialogOpen,
                   recipeToDelete, formData, toast>>
    /\ UNCHANGED filterVars
    /\ sessionFrame

\* The collaborator answers request i with an error carrying a message.
ErrorMessages == {"denied"}

ServerError(i, msg) ==
    /\ i \in DOMAIN reqs
    /\ reqs[i].status = "sent"
    /\ reqs' = [reqs EXCEPT ![i].status = "err", ![i].err = msg]
    /\ UNCHANGED <<recipes, loading, showForm, editingRecipe, deleteDialogOpen,
                   recipeToDelete, formData, toast, remote, nextId>>
    /\ UNCHANGED filterVars
    /\ sessionFrame

\* ---------------------------------------------------------------- Dashboard
IsMutation(m) == m.kind \in {"insert", "update", "delete"}

\* Mutations whose success would still issue a reload.
PendingReloads ==
    Cardinality({i \in DOMAIN reqs :
                   IsMutation(reqs[i]) /\ reqs[i].status \in {"sent", "ok"}})

\* Room for one more mutation and the reload it triggers.
CanMutate == Len(reqs) + PendingReloads + 2 <= quota

\* fetchRecipes(), up to its await: the select request, with no filter.
fetchRecipes(rs) == Append(rs, Request("select", 0, <<>>, FALSE))

\* A variant of FetchDone that stores the (absent) payload before looking at the
\* error: setRecipes(data || []) ahead of the throw.
FetchDoneClears(i) ==
    /\ i \in DOMAIN reqs
    /\ reqs[i].kind = "select"
    /\ reqs[i].status \in {"ok", "err"}
    /\ recipes' = reqs[i].result
    /\ IF reqs[i].status = "ok"
       THEN /\ toast' = toast
            /\ reqs' = [reqs EXCEPT ![i].status = "done_ok", ![i].result = <<>>]
       ELSE /\ toast' = [title |-> "Error fetching recipes",
                         description |-> reqs[i].err, variant |-> "destructive"]
            /\ reqs' = [reqs EXCEPT ![i].status = "done_err"]
    /\ loading' = FALSE
    /\ UNCHANGED <<showForm, editingRecipe, deleteDialogOpen, recipeToDelete,
                   formData, remote, nextId>>
    /\ UNCHANGED filterVars
    /\ sessionFrame

\* fetchRecipes(), after its await.
FetchDone(i) ==
    /\ i \in DOMAIN reqs
    /\ reqs[i].kind = "select"
    /\ reqs[i].status \in {"ok", "err"}
    /\ IF reqs[i].status = "ok"
       THEN /\ recipes' = reqs[i].result
            /\ toast' = toast
            /\ reqs' = [reqs EXCEPT ![i].status = "done_ok", ![i].result = <<>>]
       ELSE /\ recipes' = recipes
            /\ toast' = [title |-> "Error fetching recipes",
                         description |-> reqs[i].err, variant |-> "destructive"]
            /\ reqs' = [reqs EXCEPT ![i].status = "done_err"]
    /\ loading' = FALSE
    /\ UNCHANGED <<showForm, editingRecipe, deleteDialogOpen, recipeToDelete,
                   formData, remote, nextId>>
    /\ UNCHANGED filterVars
    /\ sessionFrame

\* handleSaveRecipe(recipeData), up to its await.
handleSaveRecipe(recipeData) ==
    LET d == [title |-> recipeData.title, ingredients |-> recipeData.ingredients,
              instructions |-> recipeData.instructions,
              difficulty |-> recipeData.difficulty, cuisine |-> recipeData.cuisine,
              user_id |-> User]
    IN  reqs' = IF editingRecipe # <<>>
                THEN Append(reqs, Request("update", editingRecipe[1].id, <<d>>, TRUE))
                ELSE Append(reqs, Request("insert", 0, <<d>>, FALSE))

\* handleSaveRecipe, after its await.
SaveDone(i) ==
    /\ i \in DOMAIN reqs
    /\ reqs[i].kind \in {"insert", "update"}
    /\ reqs[i].status \in {"ok", "err"}
    /\ IF reqs[i].status = "ok"
       THEN /\ toast' = [title |-> IF reqs[i].kind = "update"
                                   THEN "Recipe updated successfully"
                                   ELSE "Recipe created successfully",
                         description |-> "", variant |-> ""]
            /\ showForm' = FALSE
            /\ editingRecipe' = <<>>
            /\ formData' = DefaultFormData
            /\ reqs' = fetchRecipes([reqs EXCEPT ![i].status = "done_ok"])
       ELSE /\ toast' = [title |-> IF reqs[i].editing
                                   THEN "Error updating recipe"
                                   ELSE "Error creating recipe",
                         description |-> reqs[i].err, variant |-> "destructive"]
            /\ reqs' = [reqs EXCEPT ![i].status = "done_err"]
            /\ UNCHANGED <<showForm, editingRecipe, formData>>
    /\ UNCHANGED <<recipes, loading, deleteDialogOpen, recipeToDelete, remote, nextId>>
    /\ UNCHANGED filterVars
    /\ sessionFrame

\* handleDeleteRecipe, up to its await: the Delete button of the dialog.  The
\* button also dismisses the dialog through onOpenChange.
handleDeleteRecipe ==
    /\ ~showForm
    /\ deleteDialogOpen
    /\ deleteDialogOpen' = FALSE
    /\ IF recipeToDelete = 0
       THEN reqs' = reqs
       ELSE /\ CanMutate
            /\ reqs' = Append(reqs, Request("delete", recipeToDelete, <<>>, FALSE))
    /\ UNCHANGED <<recipes, loading, showForm, editingRecipe, recipeToDelete,
                   formData, toast, remote, nextId>>
    /\ UNCHANGED filterVars
    /\ sessionFrame

\* A variant of DeleteDone that also drops the row from the local collection
\* instead of waiting for the reload.
DeleteDoneOptimistic(i) ==
    /\ i \in DOMAIN reqs
    /\ reqs[i].kind = "delete"
    /\ reqs[i].status \in {"ok", "err"}
    /\ IF reqs[i].status = "ok"
       THEN /\ toast' = [title |-> "Recipe deleted successfully",
                         description |-> "", variant |-> ""]
            /\ recipes' = LET kept(r) == r.id # reqs[i].id IN SelectSeq(recipes, kept)
            /\ reqs' = fetchRecipes([reqs EXCEPT ![i].status = "done_ok"])
       ELSE /\ toast' = [title |-> "Error deleting recipe",
                         description |-> reqs[i].err, variant |-> "destructive"]
            /\ recipes' = recipes
            /\ reqs' = [reqs EXCEPT ![i].status = "done_err"]
    /\ deleteDialogOpen' = FALSE
    /\ recipeToDelete' = 0
    /\ UNCHANGED <<loading, showForm, editingRecipe, formData, remote, nextId>>
    /\ UNCHANGED filterVars
    /\ sessionFrame

\* handleDeleteRecipe, after its await.
DeleteDone(i) ==
    /\ i \in DOMAIN reqs
    /\ reqs[i].kind = "delete"
    /\ reqs[i].status \in {"ok", "err"}
    /\ IF reqs[i].status = "ok"
       THEN /\ toast' = [title |-> "Recipe deleted successfully",
                         description |-> "", variant |-> ""]
            /\ reqs' = fetchRecipes([reqs EXCEPT ![i].status = "done_ok"])
       ELSE /\ toast' = [title |-> "Error deleting recipe",
                         description |-> reqs[i].err, variant |-> "destructive"]
            /\ reqs' = [reqs EXCEPT ![i].status = "done_err"]
    /\ deleteDialogOpen' = FALSE
    /\ recipeToDelete' = 0
    /\ UNCHANGED <<recipes, loading, showForm, editingRecipe, formData, remote, nextId>>
    /\ UNCHANGED filterVars
    /\ sessionFrame

\* The dialog dismissed without Delete: onOpenChange(false).
CancelDelete ==
    /\ ~showForm
    /\ deleteDialogOpen
    /\ deleteDialogOpen' = FALSE
    /\ UNCHANGED <<recipes, loading, showForm, editingRecipe, recipeToDelete,
                   formData, toast, remote, nextId, reqs>>
    /\ UNCHANGED filterVars
    /\ sessionFrame

\* A variant of matchesSearch that compares without lower-casing.
matchesSearchCaseSensitive(recipe) ==
    \/ includes(recipe.title, searchTerm)
    \/ \E k \in DOMAIN recipe.ingredients : includes(recipe.ingredients[k], searchTerm)

\* The search/filter predicate of the dashboard.
matchesSearch(recipe) ==
    \/ includes(toLowerCase(recipe.title), toLowerCase(searchTerm))
    \/ \E k \in DOMAIN recipe.ingredients :
          includes(toLowerCase(recipe.ingredients[k]), toLowerCase(searchTerm))

matchesCuisine(recipe) == cuisineFilter = "all" \/ recipe.cuisine = cuisineFilter

matchesDifficulty(recipe) ==
    difficultyFilter = "all" \/ recipe.difficulty = difficultyFilter

filteredRecipes ==
    LET keep(recipe) == /\ matchesSearch(recipe)
                        /\ matchesCuisine(recipe)
                        /\ matchesDifficulty(recipe)
    IN  SelectSeq(recipes, keep)

\* The dashboard is rendered and nothing modal covers it.
DashboardActive == ~showForm /\ ~deleteDialogOpen

\* The cards are rendered (not the spinner).
CardsShown == DashboardActive /\ ~loading

\* "Add Recipe" / "Add Your First Recipe".
ClickAddRecipe ==
    /\ DashboardActive
    /\ showForm' = TRUE
    /\ formData' = DefaultFormData
    /\ UNCHANGED <<recipes, loading, editingRecipe, deleteDialogOpen, recipeToDelete,
                   toast, remote, nextId, reqs>>
    /\ UNCHANGED filterVars
    /\ sessionFrame

\* The draft a form mounted on `recipe` holds once its effect has run.
Seeded(recipe) ==
    [title |-> recipe.title,
     ingredients |-> IF Len(recipe.ingredients) > 0 THEN recipe.ingredients
                     ELSE << <<>> >>,
     instructions |-> recipe.instructions,
     difficulty |-> recipe.difficulty, cuisine |-> recipe.cuisine]

\* A card's Edit button.
onEdit(k) ==
    /\ CardsShown
    /\ k \in DOMAIN filteredRecipes
    /\ editingRecipe' = <<filteredRecipes[k]>>
    /\ showForm' = TRUE
    /\ formData' = Seeded(filteredRecipes[k])
    /\ UNCHANGED <<recipes, loading, deleteDialogOpen, recipeToDelete, toast,
                   remote, nextId, reqs>>
    /\ UNCHANGED filterVars
    /\ sessionFrame

\* A variant of onDelete that sends the delete at once, with no dialog.
onDeleteUnconfirmed(k) ==
    /\ CardsShown
    /\ k \in DOMAIN filteredRecipes
    /\ CanMutate
    /\ reqs' = Append(reqs, Request("delete", filteredRecipes[k].id, <<>>, FALSE))
    /\ UNCHANGED <<recipes, loading, showForm, editingRecipe, deleteDialogOpen,
                   recipeToDelete, formData, toast, remote, nextId>>
    /\ UNCHANGED filterVars
    /\ sessionFrame

\* A card's Delete button.
onDelete(k) ==
    /\ CardsShown
    /\ k \in DOMAIN filteredRecipes
    /\ recipeToDelete' = filteredRecipes[k].id
    /\ deleteDialogOpen' = TRUE
    /\ UNCHANGED <<recipes, loading, showForm, editingRecipe, formData, toast,
                   remote, nextId, reqs>>
    /\ UNCHANGED filterVars
    /\ sessionFrame

\* The form's Cancel button.
onCancel ==
    /\ showForm
    /\ showForm' = FALSE
    /\ editingRecipe' = <<>>
    /\ formData' = DefaultFormData
    /\ UNCHANGED <<recipes, loading, deleteDialogOpen, recipeToDelete, toast,
                   remote, nextId, reqs>>
    /\ UNCHANGED filterVars
    /\ sessionFrame

setSearchTerm(v) ==
    /\ DashboardActive
    /\ searchTerm' = v
    /\ UNCHANGED <<cuisineFilter, difficultyFilter>>
    /\ UNCHANGED dashVars

setCuisineFilter(v) ==
    /\ DashboardActive
    /\ cuisineFilter' = v
    /\ UNCHANGED <<searchTerm, difficultyFilter>>
    /\ UNCHANGED dashVars

setDifficultyFilter(v) ==
    /\ DashboardActive
    /\ difficultyFilter' = v
    /\ UNCHANGED <<searchTerm, cuisineFilter>>
    /\ UNCHANGED dashVars

\* --------------------------------------------------------------- RecipeForm
formFrame ==
    /\ UNCHANGED <<recipes, loading, showForm, editingRecipe, deleteDialogOpen,
                   recipeToDelete, toast, remote, nextId, reqs>>
    /\ UNCHANGED filterVars
    /\ sessionFrame

setTitle(v) ==
    /\ showForm
    /\ formData' = [formData EXCEPT !.title = v]
    /\ formFrame

setInstructions(v) ==
    /\ showForm
    /\ formData' = [formData EXCEPT !.instructions = v]
    /\ formFrame

addIngredient ==
    /\ showForm
    /\ Len(formData.ingredients) < MaxSlots
    /\ formData' = [formData EXCEPT !.ingredients = Append(@, <<>>)]
    /\ formFrame

\* A variant of RemoveShown that renders the remove button on a single row too.
RemoveShownAlways == Len(formData.ingredients) >= 1

\* The remove button of a row is rendered only while more than one row exists.
RemoveShown == Len(formData.ingredients) > 1

removeIngredient(index) ==
    /\ showForm
    /\ RemoveShown
    /\ index \in DOMAIN formData.ingredients
    /\ formData' = [formData EXCEPT !.ingredients =
                      SubSeq(@, 1, index - 1) \o SubSeq(@, index + 1, Len(@))]
    /\ formFrame

updateIngredient(index, value) ==
    /\ showForm
    /\ index \in DOMAIN formData.ingredients
    /\ formData' = [formData EXCEPT !.ingredients[index] = value]
    /\ formFrame

\* The browser's check of the inputs marked `required`.
RequiredFilled == formData.title # <<>> /\ formData.instructions # <<>>

\* A variant of filteredIngredients that also trims the entries it keeps.
filteredIngredientsTrimmed ==
    LET nonBlank(ingredient) == ingredient # <<>>
    IN  SelectSeq([k \in DOMAIN formData.ingredients |-> trim(formData.ingredients[k])],
                  nonBlank)

\* The ingredients handleSubmit passes on.
filteredIngredients ==
    LET nonBlank(ingredient) == trim(ingredient) # <<>>
    IN  SelectSeq(formData.ingredients, nonBlank)

\* The form's submit button: handleSubmit, then the onSubmit it calls.
handleSubmit ==
    /\ showForm
    /\ RequiredFilled
    /\ CanMutate
    /\ handleSaveRecipe([formData EXCEPT !.ingredients = filteredIngredients])
    /\ UNCHANGED <<recipes, loading, showForm, editingRecipe, deleteDialogOpen,
                   recipeToDelete, formData, toast, remote, nextId>>
    /\ UNCHANGED filterVars
    /\ sessionFrame

\* ------------------------------------------------------------ specification
\* Values typed into the dashboard's and the form's inputs.
SearchTerms == {<<>>, <<"a">>}
CuisineFilters == {"all", "mexican"}
DifficultyFilters == {"all", "easy"}
FormTexts == {<<>>, <<"T">>}
IngredientTexts == {<<>>, <<" ">>, <<" ", "a">>}
WideSearchTerms == {<<>>, <<"a">>, <<"A">>, <<"a", "b">>, <<"B", "A">>, <<"i">>}
WideCuisineFilters == {"all", "mexican", "asian", "other"}
WideDifficultyFilters == {"all", "easy", "medium", "hard"}

\* The page mounted for the signed-in user: the effect has issued the first fetch.
Mounted(table, q) ==
    /\ recipes = <<>>
    /\ loading = TRUE
    /\ showForm = FALSE
    /\ editingRecipe = <<>>
    /\ searchTerm = <<>>
    /\ cuisineFilter = "all"
    /\ difficultyFilter = "all"
    /\ deleteDialogOpen = FALSE
    /\ recipeToDelete = 0
    /\ formData = DefaultFormData
    /\ toast = NoToast
    /\ remote = table
    /\ nextId = FirstFreeId
    /\ reqs = fetchRecipes(<<>>)
    /\ quota = q

\* The page once that first fetch has been answered and handled.
Loaded(table, q) ==
    /\ recipes = orderDesc(table)
    /\ loading = FALSE
    /\ showForm = FALSE
    /\ editingRecipe = <<>>
    /\ searchTerm = <<>>
    /\ cuisineFilter = "all"
    /\ difficultyFilter = "all"
    /\ deleteDialogOpen = FALSE
    /\ recipeToDelete = 0
    /\ formData = DefaultFormData
    /\ toast = NoToast
    /\ remote = table
    /\ nextId = FirstFreeId
    /\ reqs = <<[Request("select", 0, <<>>, FALSE) EXCEPT !.status = "done_ok"]>>
    /\ quota = q

Answer ==
    \/ \E i \in DOMAIN reqs : ServerOk(i)
    \/ \E i \in DOMAIN reqs, msg \in ErrorMessages : ServerError(i, msg)

Continue ==
    \/ \E i \in DOMAIN reqs : FetchDone(i)
    \/ \E i \in DOMAIN reqs : SaveDone(i)
    \/ \E i \in DOMAIN reqs : DeleteDone(i)

DeleteFlow ==
    \/ \E k \in DOMAIN recipes : onDelete(k)
    \/ handleDeleteRecipe
    \/ CancelDelete

OpenClose ==
    \/ ClickAddRecipe
    \/ \E k \in DOMAIN recipes : onEdit(k)
    \/ onCancel

\* The whole page: one session against the table of two tenants.
Init == Mounted({R1, R2}, MaxRequests)

Next ==
    \/ Answer
    \/ Continue
    \/ DeleteFlow
    \/ OpenClose
    \/ \E v \in SearchTerms : setSearchTerm(v)
    \/ \E v \in CuisineFilters : setCuisineFilter(v)
    \/ \E v \in DifficultyFilters : setDifficultyFilter(v)
    \/ \E v \in FormTexts : setTitle(v)
    \/ \E v \in FormTexts : setInstructions(v)
    \/ handleSubmit

Spec == Init /\ [][Next]_vars

\* The editor: drafts edited row by row and submitted, from a loaded page.
InitForm == Loaded({R1, R3}, MaxRequests)

NextForm ==
    \/ \E i \in DOMAIN reqs : ServerOk(i)
    \/ \E i \in DOMAIN reqs : FetchDone(i)
    \/ \E i \in DOMAIN reqs : SaveDone(i)
    \/ OpenClose
    \/ \E v \in FormTexts : setTitle(v)
    \/ \E v \in FormTexts : setInstructions(v)
    \/ addIngredient
    \/ \E k \in 1..MaxSlots : removeIngredient(k)
    \/ \E k \in 1..MaxSlots, v \in IngredientTexts : updateIngredient(k, v)
    \/ handleSubmit

SpecForm == InitForm /\ [][NextForm]_vars

\* The filters: every query over every loaded collection of the pool.
InitFilter == \E table \in SUBSET Pool : Loaded(table, MaxRequests)

NextFilter ==
    \/ \E v \in WideSearchTerms : setSearchTerm(v)
    \/ \E v \in WideCuisineFilters : setCuisineFilter(v)
    \/ \E v \in WideDifficultyFilters : setDifficultyFilter(v)

SpecFilter == InitFilter /\ [][NextFilter]_vars

\* Two mutations and their reloads on a loaded page, every request answered
\* with a payload.
InitRace == Loaded({R1, R3}, RaceRequests)

NextRace ==
    \/ \E i \in DOMAIN reqs : ServerOk(i)
    \/ Continue
    \/ DeleteFlow
    \/ OpenClose
    \/ \E v \in FormTexts \ {<<>>} : setTitle(v)
    \/ \E v \in FormTexts \ {<<>>} : setInstructions(v)
    \/ handleSubmit

SpecRace == InitRace /\ [][NextRace]_vars

\* ------------------------------------------------------------------- claims
AllDone == \A i \in DOMAIN reqs : reqs[i].status \in {"done_ok", "done_err"}

SucceededMutations ==
    {i \in DOMAIN reqs : IsMutation(reqs[i]) /\ reqs[i].status = "done_ok"}

\* The request a step has just issued, if it issued a save or a delete.
Issues(kinds) ==
    /\ Len(reqs') = Len(reqs) + 1
    /\ reqs'[Len(reqs')].kind \in kinds
    /\ reqs'[Len(reqs')].status = "sent"

\* C1: once two mutations issued from one session, and the reloads they
\* trigger, have all completed successfully, the local collection equals what
\* the remote table now holds, whatever order the responses arrived in.
TwoMutationsSerialized ==
    ( /\ AllDone
      /\ \A i \in DOMAIN reqs : reqs[i].status = "done_ok"
      /\ Cardinality(SucceededMutations) = 2 )
    => recipes = orderDesc(remote)

DeleteOnlyAfterConfirm ==
    [][/\ Issues({"delete"})
          => /\ handleDeleteRecipe
             /\ deleteDialogOpen
             /\ recipeToDelete # 0
             /\ reqs'[Len(reqs')].id = recipeToDelete
       /\ (recipeToDelete' # recipeToDelete /\ recipeToDelete' # 0)
          => \E k \in DOMAIN recipes : onDelete(k)
       /\ deleteDialogOpen' => recipeToDelete' # 0]_vars

DeleteOnlyAfterConfirmWitness ==
    /\ ~deleteDialogOpen
    /\ recipeToDelete # 0
    /\ \E i \in DOMAIN reqs :
          /\ reqs[i].kind = "delete"
          /\ reqs[i].status = "sent"
          /\ reqs[i].id = recipeToDelete

\* C4: cancelling the delete confirmation leaves the local collection
\* unchanged, sends no delete request and clears the pending id.
CancelClearsPending ==
    [][CancelDelete
          => /\ recipes' = recipes
             /\ Len(reqs') = Len(reqs)
             /\ recipeToDelete' = 0]_vars

Blank(s) == \A j \in DOMAIN s : s[j] \in Whitespace

\* C5: no insert or update request is issued for a draft with an empty title,
\* empty instructions or no non-blank ingredient.
InvalidDraftNeverSent ==
    [][Issues({"insert", "update"})
          => /\ formData.title # <<>>
             /\ formData.instructions # <<>>
             /\ \E k \in DOMAIN formData.ingredients :
                   ~Blank(formData.ingredients[k])]_vars

\* C6: every select, update and delete request the session has completed was
\* restricted to the current user as owner, no row of another user is in the
\* local collection, and no row of another user is changed or removed.
OnlyOwnRecipes ==
    /\ \A i \in DOMAIN reqs :
          (reqs[i].kind \in {"select", "update", "delete"} /\ reqs[i].status = "done_ok")
          => "user_id" \in reqs[i].filters
    /\ \A k \in DOMAIN recipes : recipes[k].user_id = User
    /\ \A r \in Pool : r.user_id = OtherUser => r \in remote

\* text is a case-insensitive substring of s.
CIContains(s, text) ==
    \E off \in 0..(Len(s) - Len(text)) :
       \A j \in 1..Len(text) : Lower(s[off + j]) = Lower(text[j])

Wanted(r) ==
    /\ \/ CIContains(r.title, searchTerm)
       \/ \E k \in DOMAIN r.ingredients : CIContains(r.ingredients[k], searchTerm)
    /\ cuisineFilter = "all" \/ r.cuisine = cuisineFilter
    /\ difficultyFilter = "all" \/ r.difficulty = difficultyFilter

\* C7: the visible list is exactly the recipes of the collection that match
\* text (case-insensitively, in the title or an ingredient), cuisine and
\* difficulty, in the collection's order; the query ("", all, all) shows all.
VisibleIsExactFilter ==
    LET I == {i \in DOMAIN recipes : Wanted(recipes[i])}
    IN  /\ Len(filteredRecipes) = Cardinality(I)
        /\ \A i \in I :
              filteredRecipes[Cardinality({j \in I : j <= i})] = recipes[i]
        /\ (searchTerm = <<>> /\ cuisineFilter = "all" /\ difficultyFilter = "all")
           => filteredRecipes = recipes

VisibleIsExactFilterWitness ==
    /\ Len(recipes) = 3
    /\ searchTerm = <<"B", "A">>
    /\ cuisineFilter = "asian"
    /\ Len(filteredRecipes) = 2

\* C8: the ingredients of every record handed to insert or update are the
\* draft's non-blank entries, in draft order and unaltered.
SentIngredientsNormalized ==
    [][Issues({"insert", "update"})
          => LET sent == reqs'[Len(reqs')].data[1].ingredients
                 draft == formData.ingredients
                 I == {k \in DOMAIN draft : ~Blank(draft[k])}
             IN  /\ Len(sent) = Cardinality(I)
                 /\ \A k \in I : sent[Cardinality({j \in I : j <= k})] = draft[k]]_vars

SentIngredientsNormalizedWitness ==
    /\ showForm
    /\ formData.ingredients = << <<" ">>, <<" ", "a">> >>
    /\ reqs[Len(reqs)].status = "sent"
    /\ reqs[Len(reqs)].kind = "insert"
    /\ reqs[Len(reqs)].data[1].ingredients = << <<" ", "a">> >>

\* C9: the draft always has at least one ingredient slot.
AtLeastOneSlot == Len(formData.ingredients) >= 1

AtLeastOneSlotWitness ==
    /\ showForm
    /\ editingRecipe # <<>>
    /\ editingRecipe[1].ingredients = <<>>
    /\ formData.ingredients = << <<>> >>

\* C10: the local collection changes only by being replaced with the payload
\* of a successfully answered fetch.
CollectionReplacedOnlyByFetch ==
    [][recipes' # recipes
          => \E i \in DOMAIN reqs :
                /\ reqs[i].kind = "select"
                /\ reqs[i].status = "ok"
                /\ reqs'[i].status = "done_ok"
                /\ recipes' = reqs[i].result]_vars

CollectionReplacedOnlyByFetchWitness ==
    /\ Len(recipes) = 3
    /\ \E i \in DOMAIN reqs :
          i > 1 /\ reqs[i].kind = "select" /\ reqs[i].status = "done_ok"

\* A fetch whose response has not been handled yet.
LoadInFlight ==
    \E i \in DOMAIN reqs :
       reqs[i].kind = "select" /\ reqs[i].status \in {"sent", "ok", "err"}

\* C11: loading is true exactly while a fetch (the first one or a reload after
\* a mutation) is issued and not yet handled, and false once none is.
LoadingWhileFetching == loading <=> LoadInFlight

\* A save or delete whose response has not been handled yet.
MutationsInFlight ==
    {i \in DOMAIN reqs :
       IsMutation(reqs[i]) /\ reqs[i].status \in {"sent", "ok", "err"}}

\* C12: at most one insert, update or delete of the session awaits its
\* response at any time, and no two inserts of the session carry the same draft.
AtMostOneMutationInFlight ==
    /\ Cardinality(MutationsInFlight) <= 1
    /\ \A i, j \in DOMAIN reqs :
          (i # j /\ reqs[i].kind = "insert" /\ reqs[j].kind = "insert")
          => reqs[i].data # reqs[j].data

\* Request i was issued for the target the open form now has: an insert for a
\* new draft, an update of the recipe being edited.
SameTarget(i) ==
    IF editingRecipe = <<>>
    THEN reqs[i].kind = "insert"
    ELSE reqs[i].kind = "update" /\ reqs[i].id = editingRecipe[1].id

\* C13: the form opens only from the dashboard (new or edit); it closes only
\* on Cancel or on the success of a submission for its own target; while it
\* stays open the target is unchanged; and a failed submission leaves the
\* form, the draft and the target as they were.
EditingSessionTransitions ==
    [][/\ (~showForm /\ showForm')
          => (ClickAddRecipe \/ \E k \in DOMAIN recipes : onEdit(k))
       /\ (showForm /\ ~showForm')
          => \/ onCancel
             \/ \E i \in DOMAIN reqs :
                   /\ SaveDone(i)
                   /\ reqs[i].status = "ok"
                   /\ SameTarget(i)
       /\ (showForm /\ showForm') => editingRecipe' = editingRecipe
       /\ \A i \in DOMAIN reqs :
             (reqs[i].status = "err" /\ reqs'[i].status = "done_err")
             => UNCHANGED <<showForm, formData, editingRecipe>>]_vars

====
